---- MODULE Spec2Model ----
(***************************************************************************)
(* System Info Collector API (api/main.py): the ingest handler             *)
(* collect_data (POST /collect), its dependency verify_token, the request  *)
(* schema SystemData, the query handler query_data (GET /query/{ip}) and   *)
(* the four tables (systems, collections, processes, logged_users) they    *)
(* read and write through one database session per request.                *)
(*                                                                         *)
(* A request runs in its own session (get_db) and so in its own database   *)
(* transaction: what it flushes stays private to the session until the     *)
(* commit of line 104, and is discarded when the handler raises.  The      *)
(* awaits of collect_data are the points where requests interleave.        *)
(***************************************************************************)
EXTENDS Integers, Sequences, FiniteSets, TLC

\* ---------------------------------------------------------------- bounds
MaxClock == 1        \* readings of datetime.utcnow() are 0..MaxClock
MaxIngests == 3      \* ingest requests that get as far as the select
MaxTokenChars == 3   \* characters that follow the scheme in a header

\* ------------------------------------------------------------- constants
LIMIT == 5           \* .limit(5) of query_data

\* Optional values (Python None / SQL NULL) are sets of at most one element.
None == {}
Some(x) == {x}
The(o) == CHOOSE x \in o : TRUE

\* ------------------------------------------------------- strings as text
\* A header value is a sequence of one-character strings.
Bearer == <<"B", "e", "a", "r", "e", "r", " ">>
API_TOKEN == <<"k">>

\* str.startswith(prefix)
StartsWith(str, prefix) ==
    /\ Len(str) >= Len(prefix)
    /\ SubSeq(str, 1, Len(prefix)) = prefix

\* str.split(sep) for a one-character sep: every occurrence of sep ends a
\* field, empty fields are kept.
RECURSIVE SplitFrom(_, _, _, _)
SplitFrom(str, sep, i, field) ==
    IF i > Len(str) THEN <<field>>
    ELSE IF str[i] = sep
         THEN <<field>> \o SplitFrom(str, sep, i + 1, <<>>)
         ELSE SplitFrom(str, sep, i + 1, Append(field, str[i]))

Split(str, sep) == SplitFrom(str, sep, 1, <<>>)

\* The Authorization header of a request: absent, or a value.
NoHeader == [present |-> FALSE, value |-> <<>>]
Header(v) == [present |-> TRUE, value |-> v]

\* verify_token, lines 82-84: 0 when the dependency returns, else the status
\* of the error.  A request without the header never reaches the body of
\* verify_token: Header(...) makes the parameter required, and the framework
\* answers 422.  authorization.split(" ")[1] is the second field.
TokenStatus(authorization) ==
    IF ~authorization.present THEN 422
    ELSE IF \/ ~StartsWith(authorization.value, Bearer)
            \/ Split(authorization.value, " ")[2] # API_TOKEN
         THEN 401
         ELSE 0

\* ----------------------------------------------------------- the payload
\* A JSON body as it arrives.  running_processes and logged_in_users are
\* each a JSON array ("list", with its items) or a JSON object ("dict").
\* An item of running_processes is a JSON object, given by the optional
\* keys pid, name and username.
RawProcess(pid, name, username) ==
    [pid |-> pid, name |-> name, username |-> username]
RawUser(user, terminal) == [user |-> user, terminal |-> terminal]
JsonList(items) == [tag |-> "list", items |-> items]
JsonDict == [tag |-> "dict", items |-> <<>>]

ProcInit == RawProcess(Some(1), Some("init"), None)
NoPid == RawProcess(None, Some("kthread"), None)
Root == RawUser(Some("root"), Some("tty1"))

Bodies ==
    { [os_name |-> "Linux", os_version |-> "6.1", usage_percent |-> Some(12),
       running_processes |-> JsonList(<<ProcInit, NoPid>>),
       logged_in_users |-> JsonList(<<Root>>)],
      [os_name |-> "Windows", os_version |-> "10", usage_percent |-> None,
       running_processes |-> JsonList(<<ProcInit, ProcInit>>),
       logged_in_users |-> JsonDict],
      [os_name |-> "Linux", os_version |-> "6.1", usage_percent |-> None,
       running_processes |-> JsonDict,
       logged_in_users |-> JsonList(<<>>)] }

\* ProcessInfo, lines 62-63: pid and name are required.
IsProcessInfo(raw) == raw.pid # None /\ raw.name # None

\* UserInfo, lines 64-65: user is required.
IsUserInfo(raw) == raw.user # None

\* SystemData, lines 66-67.  running_processes: list[ProcessInfo | dict]
\* takes a JSON array only, each item of which is an object (a ProcessInfo
\* when it has the shape, a plain dict otherwise); logged_in_users:
\* list[UserInfo] | dict takes an array of UserInfo or an object.
ValidSystemData(body) ==
    /\ body.running_processes.tag = "list"
    /\ body.logged_in_users.tag = "list" =>
          \A i \in 1..Len(body.logged_in_users.items) :
              IsUserInfo(body.logged_in_users.items[i])

\* What validation hands to collect_data: each item of running_processes as
\* a ProcessInfo or as a plain dict, each item of logged_in_users as a
\* UserInfo.
ParseProcess(raw) ==
    IF IsProcessInfo(raw)
    THEN [tag |-> "ProcessInfo", pid |-> The(raw.pid), name |-> The(raw.name),
          username |-> raw.username]
    ELSE [tag |-> "dict", pid |-> 0, name |-> "", username |-> None]

ParseUser(raw) == [user |-> The(raw.user), terminal |-> raw.terminal]

ParseSystemData(body) ==
    [os_name |-> body.os_name,
     os_version |-> body.os_version,
     usage_percent |-> body.usage_percent,
     running_processes |->
        [tag |-> body.running_processes.tag,
         items |-> [i \in 1..Len(body.running_processes.items) |->
                       ParseProcess(body.running_processes.items[i])]],
     logged_in_users |->
        [tag |-> body.logged_in_users.tag,
         items |-> [i \in 1..Len(body.logged_in_users.items) |->
                       ParseUser(body.logged_in_users.items[i])]]]

\* ------------------------------------------------------------- the state
Sessions == {1, 2}                 \* requests in flight at once
Addresses == {"10.0.0.5", "10.0.0.6"}

VARIABLES
    systems,       \* committed rows of table systems
    collections,   \* committed rows of table collections
    processes,     \* committed rows of table processes
    logged_users,  \* committed rows of table logged_users
    session,       \* per request in flight: the handler's locals and its
                   \* session's uncommitted work
    answer,        \* the last answer of collect_data
    refused,       \* the last request answered before its handler ran
    query,         \* the last answer of query_data
    now,           \* datetime.utcnow()
    ingests        \* ingest requests that got as far as the select

tables == <<systems, collections, processes, logged_users>>
vars == <<systems, collections, processes, logged_users, session,
          answer, refused, query, now, ingests>>

\* A session at rest.  pc is the await the handler stands at; system is the
\* handler's local `system` (a System object, or None), created tells a
\* System the handler built (line 93) from one the select loaded, and
\* collection is its local `collection` once flushed.  authorization,
\* client_ip and body are those of the request it serves.
NoSession ==
    [pc |-> "idle", authorization |-> NoHeader, client_ip |-> "",
     body |-> None, system |-> None, created |-> FALSE, collection |-> None]

\* An answer of collect_data: the status, the exception behind it and the
\* await the handler stood at.
NoAnswer == [status |-> 0, error |-> "", at |-> "idle"]

NoRefusal ==
    [status |-> 0, error |-> "", authorization |-> NoHeader,
     client_ip |-> "", body |-> None]

NoQuery == [ip_address |-> "", status |-> 0, body |-> <<>>]

Init ==
    /\ systems = {}
    /\ collections = {}
    /\ processes = {}
    /\ logged_users = {}
    /\ session = [s \in Sessions |-> NoSession]
    /\ answer = NoAnswer
    /\ refused = NoRefusal
    /\ query = NoQuery
    /\ now = 0
    /\ ingests = 0

\* The handler of session s has returned or raised: the answer is sent and
\* the session closed (get_db, lines 73-75), which drops whatever it had not
\* committed.
Ends(s, status, error) ==
    /\ session' = [session EXCEPT ![s] = NoSession]
    /\ answer' = [status |-> status, error |-> error, at |-> session[s].pc]

\* line 88: the forwarded address when the header is there, else the
\* peer's.
ClientIp(forwarded, peer) == IF forwarded # None THEN The(forwarded) ELSE peer

\* A session is free when no request runs in it; a request takes the first
\* free one.
Free(s) == session[s].pc = "idle"
Takes(s) == Free(s) /\ \A t \in Sessions : t < s => ~Free(t)

\* The request as it arrives.
Arrived(s, authorization, client_ip, body) ==
    [NoSession EXCEPT !.authorization = authorization,
                      !.client_ip = client_ip, !.body = Some(body)]

\* POST /collect answered before the handler runs, and so before a session
\* is opened for it: the token dependency (line 86) or the validation of the
\* body against SystemData refuses it.
CollectRefused(authorization, client_ip, body) ==
    /\ TokenStatus(authorization) # 0 \/ ~ValidSystemData(body)
    /\ refused' =
          [status |-> IF TokenStatus(authorization) # 0
                      THEN TokenStatus(authorization) ELSE 422,
           error |-> IF TokenStatus(authorization) = 401
                     THEN "HTTPException" ELSE "RequestValidationError",
           authorization |-> authorization, client_ip |-> client_ip,
           body |-> Some(body)]
    /\ UNCHANGED <<systems, collections, processes, logged_users,
                   session, answer, query, now, ingests>>

\* lines 88-91: the select of the host by address, on the committed rows.
\* scalar_one_or_none() raises when more than one row matches.
CollectSelect(s, authorization, client_ip, body) ==
    /\ Takes(s)
    /\ TokenStatus(authorization) = 0
    /\ ValidSystemData(body)
    /\ ingests < MaxIngests
    /\ ingests' = ingests + 1
    /\ LET found == {r \in systems : r.ip_address = client_ip}
           req == Arrived(s, authorization, client_ip, body)
       IN IF Cardinality(found) > 1
          THEN Ends(s, 500, "MultipleResultsFound")
          ELSE /\ session' = [session EXCEPT ![s] =
                     [req EXCEPT !.pc = "selected", !.system = found]]
               /\ UNCHANGED answer
    /\ UNCHANGED <<systems, collections, processes, logged_users,
                   refused, query, now>>

\* The table without the unique index on ip_address.
NoDuplicateKey(ip) == FALSE

\* ip_address is unique (line 30): an insert of an address a committed row
\* already holds is refused with a duplicate-key error.
DuplicateKey(ip) == \E r \in systems : r.ip_address = ip

\* An insert of an address another open transaction has inserted waits for
\* that transaction to end.
InsertWaits(s, ip) ==
    \E t \in Sessions \ {s} :
        /\ session[t].created
        /\ The(session[t].system).ip_address = ip

\* An update of a row another open transaction has updated waits for that
\* transaction to end.
UpdateWaits(s, id) ==
    \E t \in Sessions \ {s} :
        /\ session[t].pc = "collection"
        /\ The(session[t].system).id = id

\* A primary key no row has: not a committed row, and not a row an open
\* transaction has inserted.
FreshId(rows, inflight) ==
    LET used == {r.id : r \in rows \cup inflight}
    IN CHOOSE id \in 1..(Cardinality(used) + 1) :
          /\ id \notin used
          /\ \A j \in 1..(id - 1) : j \in used

InflightSystems == UNION {session[t].system : t \in Sessions}
InflightCollections == UNION {session[t].collection : t \in Sessions}

\* line 93 and the column defaults of lines 29-32: the new System.
NewSystem(id, client_ip, data, t) ==
    [id |-> id, ip_address |-> client_ip, os_name |-> data.os_name,
     os_version |-> data.os_version, first_seen |-> t, last_seen |-> t]

\* The host committed where line 94 flushes it.
AddSystemCommitting(s) ==
    LET r == session[s]
        data == ParseSystemData(The(r.body))
        new == NewSystem(FreshId(systems, InflightSystems), r.client_ip,
                         data, now)
    IN /\ r.pc = "selected"
       /\ r.system = None
       /\ ~DuplicateKey(r.client_ip)
       /\ systems' = systems \cup {new}
       /\ session' = [session EXCEPT ![s] =
             [r EXCEPT !.pc = "system", !.system = Some(new)]]
       /\ UNCHANGED <<collections, processes, logged_users, answer, refused,
                      query, now, ingests>>

\* lines 92-94: no host of this address was selected; add one and flush.
\* The insert is refused when the address has been committed meanwhile.
AddSystem(s) ==
    LET r == session[s]
        data == ParseSystemData(The(r.body))
    IN /\ r.pc = "selected"
       /\ r.system = None
       /\ ~InsertWaits(s, r.client_ip)
       /\ IF DuplicateKey(r.client_ip)
          THEN Ends(s, 500, "IntegrityError")
          ELSE /\ session' = [session EXCEPT ![s] =
                     [r EXCEPT !.pc = "system", !.created = TRUE,
                               !.system = Some(NewSystem(
                                   FreshId(systems, InflightSystems),
                                   r.client_ip, data, now))]]
               /\ UNCHANGED answer
       /\ UNCHANGED <<systems, collections, processes, logged_users,
                      refused, query, now, ingests>>

\* The handler refreshing the system fields of a known host as well.
TouchedWithOs(system, data, t) ==
    [system EXCEPT !.last_seen = t, !.os_name = data.os_name,
                   !.os_version = data.os_version]

\* line 96: system.last_seen = datetime.utcnow().
Touched(system, data, t) == [system EXCEPT !.last_seen = t]

\* lines 95-96: the host was selected.
TouchSystem(s) ==
    LET r == session[s]
        data == ParseSystemData(The(r.body))
    IN /\ r.pc = "selected"
       /\ r.system # None
       /\ session' = [session EXCEPT ![s] =
             [r EXCEPT !.pc = "system",
                       !.system = Some(Touched(The(r.system), data, now))]]
       /\ UNCHANGED <<systems, collections, processes, logged_users,
                      answer, refused, query, now, ingests>>

\* line 97 and the default of line 39: the new Collection.
NewCollection(id, system, data, t) ==
    [id |-> id, system_id |-> system.id, collection_timestamp |-> t,
     cpu_usage_percent |-> data.usage_percent]

\* lines 97-98: the flush sends the UPDATE of a selected host (which waits
\* while another transaction holds the row) and the INSERT of the
\* Collection.
FlushCollection(s) ==
    LET r == session[s]
        data == ParseSystemData(The(r.body))
    IN /\ r.pc = "system"
       /\ r.created \/ ~UpdateWaits(s, The(r.system).id)
       /\ session' = [session EXCEPT ![s] =
             [r EXCEPT !.pc = "collection",
                       !.collection = Some(NewCollection(
                           FreshId(collections, InflightCollections),
                           The(r.system), data, now))]]
       /\ UNCHANGED <<systems, collections, processes, logged_users,
                      answer, refused, query, now, ingests>>

\* The positions of the items of running_processes line 101 adds a Process
\* for, and of the items of logged_in_users line 103 adds a LoggedUser for.
ProcessItems(data) ==
    IF data.running_processes.tag = "list"
    THEN {i \in 1..Len(data.running_processes.items) :
             data.running_processes.items[i].tag = "ProcessInfo"}
    ELSE {}

UserItems(data) ==
    IF data.logged_in_users.tag = "list"
    THEN 1..Len(data.logged_in_users.items)
    ELSE {}

\* The k-th (from 0) element of a set of positions, in order.
Rank(S, i) == Cardinality({j \in S : j < i})

\* A Process for every item, whatever its shape.
NewProcessesUnchecked(data, collection_id, first_id) ==
    {[id |-> first_id + i - 1,
      collection_id |-> collection_id,
      pid |-> data.running_processes.items[i].pid,
      name |-> data.running_processes.items[i].name,
      username |-> data.running_processes.items[i].username] :
        i \in 1..Len(data.running_processes.items)}

\* lines 99-101
NewProcesses(data, collection_id, first_id) ==
    {[id |-> first_id + Rank(ProcessItems(data), i),
      collection_id |-> collection_id,
      pid |-> data.running_processes.items[i].pid,
      name |-> data.running_processes.items[i].name,
      username |-> data.running_processes.items[i].username] :
        i \in ProcessItems(data)}

\* lines 102-103
NewLoggedUsers(data, collection_id, first_id) ==
    {[id |-> first_id + Rank(UserItems(data), i),
      collection_id |-> collection_id,
      username |-> data.logged_in_users.items[i].user,
      terminal |-> data.logged_in_users.items[i].terminal] :
        i \in UserItems(data)}

\* The UPDATE of a selected host as the commit makes it visible: the row of
\* that id takes the attributes of the handler's object.
Updated(rows, system) ==
    {IF r.id = system.id
     THEN [r EXCEPT !.os_name = system.os_name,
                    !.os_version = system.os_version,
                    !.last_seen = system.last_seen]
     ELSE r : r \in rows}

\* lines 99-104: the children are added and the transaction commits: the
\* host (inserted or updated), the Collection and its children become
\* visible at once.
Commit(s) ==
    LET r == session[s]
        data == ParseSystemData(The(r.body))
        c == The(r.collection)
    IN /\ r.pc = "collection"
       /\ systems' = IF r.created THEN systems \cup r.system
                     ELSE Updated(systems, The(r.system))
       /\ collections' = collections \cup {c}
       /\ processes' = processes \cup
                          NewProcesses(data, c.id, FreshId(processes, {}))
       /\ logged_users' = logged_users \cup
                          NewLoggedUsers(data, c.id,
                                         FreshId(logged_users, {}))
       /\ Ends(s, 201, "")
       /\ UNCHANGED <<refused, query, now, ingests>>

\* An await of the handler raises (the connection drops, a lock wait times
\* out, the commit is refused): the answer is 500 and the session closes
\* without a commit.
Fail(s) ==
    /\ session[s].pc \in {"selected", "system", "collection"}
    /\ Ends(s, 500, "OperationalError")
    /\ UNCHANGED <<systems, collections, processes, logged_users,
                   refused, query, now, ingests>>

\* Time passes.
Tick ==
    /\ now < MaxClock
    /\ now' = now + 1
    /\ UNCHANGED <<systems, collections, processes, logged_users,
                   session, answer, refused, query, ingests>>

\* ------------------------------------------------------------- the query
\* line 111: the Collections joined to the host of the address.
CollectionsOf(ip) ==
    {c \in collections :
        \E h \in systems : h.id = c.system_id /\ h.ip_address = ip}

ProcessesOf(c) == {p \in processes : p.collection_id = c.id}
LoggedUsersOf(c) == {u \in logged_users : u.collection_id = c.id}

Min(a, b) == IF a < b THEN a ELSE b

\* .order_by(Collection.collection_timestamp.desc()).limit(5): the orders
\* the database may return, equal timestamps in any order, cut to LIMIT.
OrderedLimited(S) ==
    LET n == Cardinality(S)
        orders == {q \in [1..n -> S] :
                     /\ \A i, j \in 1..n : i # j => q[i] # q[j]
                     /\ \A i \in 1..n, j \in 1..n :
                          i < j => q[i].collection_timestamp >=
                                   q[j].collection_timestamp}
    IN {SubSeq(q, 1, Min(n, LIMIT)) : q \in orders}

\* joinedload(Collection.processes), joinedload(Collection.logged_users):
\* two outer joins, so each Collection comes back once per pair of a
\* Process and a LoggedUser of its own (once when it has none).
JoinedRows(c) ==
    LET np == Cardinality(ProcessesOf(c))
        nu == Cardinality(LoggedUsersOf(c))
    IN (IF np = 0 THEN 1 ELSE np) * (IF nu = 0 THEN 1 ELSE nu)

RECURSIVE RowCount(_)
RowCount(q) ==
    IF q = <<>> THEN 0 ELSE JoinedRows(Head(q)) + RowCount(Tail(q))

\* line 112, result.scalars().all(): a result of joined eager loads against
\* collections has to be made unique() before its rows are read; the first
\* row read without it raises InvalidRequestError.  With no row there is
\* nothing to read and the list is empty.
ScalarsAllRaises(q) == RowCount(q) > 0

\* line 116: one record of the answer.  The children are listed by row.
Record(c) ==
    [collection_timestamp |-> c.collection_timestamp,
     cpu_usage |-> c.cpu_usage_percent,
     processes |-> {[row |-> p.id, pid |-> p.pid, name |-> p.name] :
                       p \in ProcessesOf(c)},
     users |-> {[row |-> u.id, user |-> u.username] :
                       u \in LoggedUsersOf(c)}]

\* GET /query/{ip_address}, lines 107-117: one select on the committed rows.
query_data(ip_address) ==
    /\ \E q \in OrderedLimited(CollectionsOf(ip_address)) :
          query' =
            IF ScalarsAllRaises(q)
            THEN [ip_address |-> ip_address, status |-> 500, body |-> <<>>]
            ELSE IF q = <<>>
            THEN [ip_address |-> ip_address, status |-> 404, body |-> <<>>]
            ELSE [ip_address |-> ip_address, status |-> 200,
                  body |-> [i \in 1..Len(q) |-> Record(q[i])]]
    /\ UNCHANGED <<systems, collections, processes, logged_users,
                   session, answer, refused, now, ingests>>

\* ------------------------------------------------------ the headers sent
TokenChars == {" ", "k", "x"}

Texts(n) == UNION {[1..m -> TokenChars] : m \in 0..n}

\* The headers sent: none, the scheme followed by any text, and the token
\* alone or after a scheme in lower case.
Headers ==
    {NoHeader} \cup
    {Header(Bearer \o text) : text \in Texts(MaxTokenChars)} \cup
    {Header(API_TOKEN),
     Header(<<"b", "e", "a", "r", "e", "r", " ">> \o API_TOKEN)}

GoodHeader == Header(Bearer \o API_TOKEN)

\* -------------------------------------------------------- specifications
Linux == CHOOSE b \in Bodies : ValidSystemData(b) /\ b.os_name = "Linux"
Windows == CHOOSE b \in Bodies : ValidSystemData(b) /\ b.os_name = "Windows"

\* The requests sent: the X-Forwarded-For header (or none), the peer's
\* address and the body.  One host sends for itself, under either system;
\* the other is behind a proxy.
Requests ==
    {<<None, "10.0.0.5", Linux>>, <<None, "10.0.0.5", Windows>>,
     <<Some("10.0.0.6"), "10.0.0.5", Linux>>}

\* POST /collect arrives.
Collect(s, authorization, request) ==
    LET client_ip == ClientIp(request[1], request[2])
    IN \/ CollectRefused(authorization, client_ip, request[3])
       \/ CollectSelect(s, authorization, client_ip, request[3])

\* Two authorized requests in flight, any interleaving of their awaits.
Next ==
    \/ \E s \in Sessions :
          \/ \E request \in Requests :
                CollectSelect(s, GoodHeader,
                              ClientIp(request[1], request[2]), request[3])
          \/ AddSystem(s)
          \/ TouchSystem(s)
          \/ FlushCollection(s)
          \/ Commit(s)
          \/ Fail(s)
    \/ Tick

Spec == Init /\ [][Next]_vars

\* One client, one request after the other, and the queries.
NextQuery ==
    \/ \E request \in Requests :
          CollectSelect(1, GoodHeader,
                        ClientIp(request[1], request[2]), request[3])
    \/ AddSystem(1)
    \/ TouchSystem(1)
    \/ FlushCollection(1)
    \/ Commit(1)
    \/ Fail(1)
    \/ \E ip \in Addresses : query_data(ip)
    \/ Tick

SpecQuery == Init /\ [][NextQuery]_vars

\* One client, one request after the other: every header with one body,
\* and every body with the right header.
NextAuth ==
    \/ \E authorization \in Headers :
          Collect(1, authorization, <<None, "10.0.0.5", Linux>>)
    \/ \E body \in Bodies :
          Collect(1, GoodHeader, <<None, "10.0.0.5", body>>)
    \/ AddSystem(1)
    \/ TouchSystem(1)
    \/ FlushCollection(1)
    \/ Commit(1)
    \/ Fail(1)

SpecAuth == Init /\ [][NextAuth]_vars

\* ------------------------------------------------------------ the claims
\* Session s ends its request in this step.
EndsNow(s) == session[s].pc # "idle" /\ session'[s].pc = "idle"

HostsAt(rows, ip) == {h \in rows : h.ip_address = ip}

\* The items of a body's running_processes that have the shape of a
\* process entry, and the items of its logged_in_users.
WellFormed(body) ==
    IF body.running_processes.tag = "list"
    THEN {i \in 1..Len(body.running_processes.items) :
             /\ body.running_processes.items[i].pid # None
             /\ body.running_processes.items[i].name # None}
    ELSE {}

UserEntries(body) ==
    IF body.logged_in_users.tag = "list"
    THEN 1..Len(body.logged_in_users.items)
    ELSE {}

\* C1: an ingest is all-or-nothing.  A request that ends with anything but
\* success leaves the four tables as they were; the tables change only in
\* the step a request ends with success, and in that step its Collection,
\* the host it belongs to and every one of its children become visible
\* together, so no reader sees the Collection without them.
C1_AllOrNothing ==
    [][/\ \A s \in Sessions :
            EndsNow(s) /\ answer'.status # 201 => UNCHANGED tables
       /\ tables' # tables =>
            \E s \in Sessions :
               LET c == The(session[s].collection)
                   body == The(session[s].body)
               IN /\ EndsNow(s)
                  /\ answer'.status = 201
                  /\ c \notin collections
                  /\ collections' = collections \cup {c}
                  /\ \E h \in systems' : h.id = c.system_id
                  /\ processes \subseteq processes'
                  /\ logged_users \subseteq logged_users'
                  /\ \A p \in processes' \ processes : p.collection_id = c.id
                  /\ \A u \in logged_users' \ logged_users :
                        u.collection_id = c.id
                  /\ Cardinality(processes' \ processes) =
                        Cardinality(WellFormed(body))
                  /\ Cardinality(logged_users' \ logged_users) =
                        Cardinality(UserEntries(body))]_vars

\* A request failed at its commit, with its host and its Collection flushed,
\* and nothing of it is stored.
C1_Witness ==
    /\ answer.status = 500
    /\ answer.at = "collection"
    /\ systems = {} /\ collections = {}
    /\ processes = {} /\ logged_users = {}

\* C3: no two hosts share an address, whatever the interleaving.  An ingest
\* from an address that has a host adds none, and an ingest that selected no
\* host and finds the address committed by the time of its insert ends with
\* a server error and writes nothing.
C3_UniqueAddress ==
    /\ [](\A a, b \in systems : a.ip_address = b.ip_address => a = b)
    /\ [][\A s \in Sessions :
            /\ (/\ EndsNow(s)
                /\ HostsAt(systems, session[s].client_ip) # {})
               => /\ Cardinality(systems') = Cardinality(systems)
                  /\ session[s].system = None =>
                        answer'.status = 500 /\ UNCHANGED tables]_vars

\* Of two first ingests from one address one has created the host and the
\* other was refused as a duplicate.
C3_Witness ==
    /\ answer.status = 500
    /\ answer.error = "IntegrityError"
    /\ Cardinality(systems) = 1
    /\ Cardinality(collections) = 1

C10_Frame ==
    [][\A s \in Sessions :
         (/\ EndsNow(s)
          /\ answer'.status = 201
          /\ HostsAt(systems, session[s].client_ip) # {})
         => /\ \A old \in systems :
                 \E new \in systems' :
                    /\ new.id = old.id
                    /\ new.ip_address = old.ip_address
                    /\ new.os_name = old.os_name
                    /\ new.os_version = old.os_version
                    /\ new.first_seen = old.first_seen
                    /\ old.ip_address # session[s].client_ip => new = old
            /\ Cardinality(systems') = Cardinality(systems)
            /\ collections \subseteq collections'
            /\ processes \subseteq processes'
            /\ logged_users \subseteq logged_users']_vars

\* A host first seen under Linux has a Collection sent under Windows (the
\* one with two processes), and another host is stored beside it.
C10_Witness ==
    /\ answer.status = 201
    /\ Cardinality(systems) = 2
    /\ \E h \in systems, c \in collections :
          /\ c.system_id = h.id
          /\ h.os_name = "Linux"
          /\ Cardinality(ProcessesOf(c)) = 2

\* C2: an ingest whose credential is missing, malformed or not the
\* configured secret is answered 401 and leaves the tables as they were:
\* it is refused with 401, and no request that writes carries such a
\* credential.
C2_UnauthorizedRejected ==
    [][/\ (refused' # refused /\ refused'.authorization # GoodHeader)
            => refused'.status = 401 /\ UNCHANGED tables
       /\ tables' # tables =>
            \A s \in Sessions :
               EndsNow(s) => session[s].authorization = GoodHeader]_vars

\* C9: a request passes the token check only with the header that is
\* exactly the scheme followed by the secret; every other header that
\* starts with the scheme is answered 401.
C9_ExactToken ==
    /\ \A s \in Sessions :
          session[s].pc # "idle" => session[s].authorization = GoodHeader
    /\ (/\ refused.status # 0
        /\ refused.authorization.present
        /\ StartsWith(refused.authorization.value, Bearer)
        /\ refused.authorization # GoodHeader)
       => refused.status = 401

\* C7: an authorized ingest whose running_processes is a mapping does not
\* fail: it is not refused.
C7_MappingAccepted ==
    ~(/\ refused.status # 0
      /\ refused.authorization = GoodHeader
      /\ refused.body # None
      /\ The(refused.body).running_processes.tag = "dict")

\* C8: last_seen of a host never decreases from one state to the next and
\* is never earlier than first_seen.
C8_LastSeenMonotonic ==
    /\ [](\A h \in systems : h.first_seen <= h.last_seen)
    /\ [][\A old \in systems, new \in systems' :
            new.id = old.id => old.last_seen <= new.last_seen]_vars

\* C6: a query for the address of a host with k Collections answers 200
\* with Min(k, 5) records, in descending order of timestamp, each the
\* record of a Collection of that host with all its children, none of them
\* older than a Collection left out.
C6_RecentCollections ==
    [][(query' # query /\ HostsAt(systems, query'.ip_address) # {}) =>
         LET all == CollectionsOf(query'.ip_address)
             n == Min(Cardinality(all), LIMIT)
             out == query'.body
         IN /\ query'.status = 200
            /\ Len(out) = n
            /\ \E q \in [1..n -> all] :
                  /\ \A i, j \in 1..n : i # j => q[i] # q[j]
                  /\ \A i \in 1..n : out[i] = Record(q[i])
                  /\ \A i, j \in 1..n :
                        i < j => q[i].collection_timestamp >=
                                 q[j].collection_timestamp
                  /\ \A c \in all :
                        (\A i \in 1..n : q[i] # c) =>
                           \A i \in 1..n : q[i].collection_timestamp >=
                                            c.collection_timestamp]_vars

====
